---------------------------- MODULE Spec2Model ----------------------------
(***************************************************************************)
(* Dire Wolf APRS Telemetry Toolkit, scripts/telemetry-toolkit/            *)
(* telem-volts.py: read one ADS1115 channel, undo the voltage divider,     *)
(* print the voltage with three decimals.                                  *)
(*                                                                         *)
(* The script computes in Python floats (IEEE-754 binary64) and prints     *)
(* with "%.3f".  Both are modelled bit-exactly: a float is a sign, a       *)
(* 53-bit significand and a binary exponent, every operation rounds to     *)
(* nearest, ties to even, and the formatter rounds the exact binary value  *)
(* to three decimals, ties to even.  Significands are wider than TLC's     *)
(* integers, so they are kept as little-endian sequences of 15-bit limbs.  *)
(***************************************************************************)
EXTENDS Integers, Sequences, FiniteSets

(***************************************************************************)
(* Natural numbers of any size: <<l1, ..., ln>> is l1 + l2*B + ..., each   *)
(* limb in 0..B-1, the last limb non-zero; << >> is 0.                     *)
(***************************************************************************)
B == 2^15

BigNat == Seq(Nat)

Pow2Table == <<1, 2, 4, 8, 16, 32, 64, 128, 256, 512, 1024, 2048, 4096,
               8192, 16384, 32768>>

Pow2(i) == Pow2Table[i + 1]

BigNorm[a \in BigNat] ==
    IF a = << >> THEN << >>
    ELSE IF a[Len(a)] = 0 THEN BigNorm[SubSeq(a, 1, Len(a) - 1)]
    ELSE a

BigFromNat[n \in Nat] == IF n = 0 THEN << >> ELSE <<n % B>> \o BigFromNat[n \div B]

BigAddC[a \in BigNat, b \in BigNat, c \in Nat] ==
    IF a = << >> /\ b = << >>
    THEN IF c = 0 THEN << >> ELSE <<c>>
    ELSE LET x == IF a = << >> THEN 0 ELSE Head(a)
             y == IF b = << >> THEN 0 ELSE Head(b)
             s == x + y + c
         IN  <<s % B>> \o BigAddC[IF a = << >> THEN a ELSE Tail(a),
                                  IF b = << >> THEN b ELSE Tail(b),
                                  s \div B]

BigAdd[a \in BigNat, b \in BigNat] == BigAddC[a, b, 0]

\* a - b - c for a >= b + c, limb by limb with borrow c
BigSubC[a \in BigNat, b \in BigNat, c \in Nat] ==
    IF a = << >> THEN << >>
    ELSE LET y == IF b = << >> THEN 0 ELSE Head(b)
             d == Head(a) - y - c
         IN  <<IF d < 0 THEN d + B ELSE d>>
             \o BigSubC[Tail(a), IF b = << >> THEN b ELSE Tail(b),
                        IF d < 0 THEN 1 ELSE 0]

BigSub[a \in BigNat, b \in BigNat] == BigNorm[BigSubC[a, b, 0]]

\* -1, 0, 1 as a < b, a = b, a > b
BigCmpFrom[a \in BigNat, b \in BigNat, i \in Nat] ==
    IF i = 0 THEN 0
    ELSE IF a[i] < b[i] THEN -1
    ELSE IF a[i] > b[i] THEN 1
    ELSE BigCmpFrom[a, b, i - 1]

BigCmp[a \in BigNat, b \in BigNat] ==
    IF Len(a) < Len(b) THEN -1
    ELSE IF Len(a) > Len(b) THEN 1
    ELSE BigCmpFrom[a, b, Len(a)]

BigLeq[a \in BigNat, b \in BigNat] == BigCmp[a, b] <= 0

\* a * n + c for 0 <= n < B, 0 <= c < B
BigMulSmallC[a \in BigNat, n \in Nat, c \in Nat] ==
    IF a = << >> THEN (IF c = 0 THEN << >> ELSE <<c>>)
    ELSE LET p == Head(a) * n + c
         IN  <<p % B>> \o BigMulSmallC[Tail(a), n, p \div B]

BigMulSmall[a \in BigNat, n \in Nat] == IF n = 0 THEN << >> ELSE BigMulSmallC[a, n, 0]

\* a * B^k
BigShiftLimbs[a \in BigNat, k \in Nat] ==
    IF a = << >> \/ k = 0 THEN a ELSE BigShiftLimbs[<<0>> \o a, k - 1]

BigMul[a \in BigNat, b \in BigNat] ==
    IF a = << >> \/ b = << >> THEN << >>
    ELSE BigAdd[BigMulSmall[a, Head(b)],
                BigShiftLimbs[BigMul[a, Tail(b)], 1]]

\* floor(a / n) for 0 < n <= B, from the top limb down, carrying remainder r
BigDivSmallR[a \in BigNat, n \in Nat, r \in Nat] ==
    IF a = << >> THEN << >>
    ELSE LET t == r * B + a[Len(a)]
         IN  BigDivSmallR[SubSeq(a, 1, Len(a) - 1), n, t % n]
             \o <<t \div n>>

BigDivSmall[a \in BigNat, n \in Nat] == BigNorm[BigDivSmallR[a, n, 0]]

BigModSmallR[a \in BigNat, n \in Nat, r \in Nat] ==
    IF a = << >> THEN r
    ELSE BigModSmallR[SubSeq(a, 1, Len(a) - 1), n, (r * B + a[Len(a)]) % n]

BigModSmall[a \in BigNat, n \in Nat] == BigModSmallR[a, n, 0]

\* a * 2^s
BigShl[a \in BigNat, s \in Nat] == BigShiftLimbs[BigMulSmall[a, Pow2(s % 15)], s \div 15]

\* floor(a / 2^s)
BigShr[a \in BigNat, s \in Nat] ==
    IF s \div 15 >= Len(a) THEN << >>
    ELSE BigDivSmall[SubSeq(a, (s \div 15) + 1, Len(a)), Pow2(s % 15)]

BitLenNat[n \in Nat] == IF n = 0 THEN 0 ELSE 1 + BitLenNat[n \div 2]

BigBitLen[a \in BigNat] ==
    IF a = << >> THEN 0 ELSE 15 * (Len(a) - 1) + BitLenNat[a[Len(a)]]

BigOne == <<1>>

BigIsOdd[a \in BigNat] == a # << >> /\ a[1] % 2 = 1

(***************************************************************************)
(* Python floats.  [neg, man, exp] is (-1)^neg * man * 2^exp with man a    *)
(* 53-bit natural (2^52 <= man < 2^53); zero has man = << >> and exp = 0.  *)
(* The script's values stay far from the subnormal and overflow ranges,    *)
(* so the exponent is unbounded here.                                      *)
(***************************************************************************)
Float == [neg : BOOLEAN, man : BigNat, exp : Int]

FZero[neg \in BOOLEAN] == [neg |-> neg, man |-> << >>, exp |-> 0]

\* (-1)^neg * n * 2^e, increased by less than one unit of n when sticky,
\* rounded to the nearest float, ties to even.
FRound[neg \in BOOLEAN, n \in BigNat, e \in Int, sticky \in BOOLEAN] ==
    IF n = << >> THEN FZero[neg]
    ELSE LET len == BigBitLen[n]
         IN  IF len <= 53
             THEN [neg |-> neg, man |-> BigShl[n, 53 - len],
                   exp |-> e - (53 - len)]
             ELSE LET s    == len - 53
                      q    == BigShr[n, s]
                      r    == BigSub[n, BigShl[q, s]]
                      half == BigShl[BigOne, s - 1]
                      c    == BigCmp[r, half]
                      up   == \/ c > 0
                              \/ c = 0 /\ (sticky \/ BigIsOdd[q])
                      m    == IF up THEN BigAdd[q, BigOne] ELSE q
                  IN  IF BigBitLen[m] = 54
                      THEN [neg |-> neg, man |-> BigShr[m, 1],
                            exp |-> e + s + 1]
                      ELSE [neg |-> neg, man |-> m, exp |-> e + s]

\* float(n) for an integer n
FFromInt[n \in Int] == FRound[n < 0, BigFromNat[IF n < 0 THEN -n ELSE n], 0, FALSE]

\* x * y
FMul[x \in Float, y \in Float] ==
    IF x.man = << >> \/ y.man = << >> THEN FZero[x.neg # y.neg]
    ELSE FRound[x.neg # y.neg, BigMul[x.man, y.man], x.exp + y.exp, FALSE]

\* x + y for operands of one sign
FAdd[x \in Float, y \in Float] ==
    IF x.man = << >> THEN y
    ELSE IF y.man = << >> THEN x
    ELSE LET hi == IF x.exp >= y.exp THEN x ELSE y
             lo == IF x.exp >= y.exp THEN y ELSE x
         IN  FRound[x.neg,
                    BigAdd[BigShl[hi.man, hi.exp - lo.exp], lo.man],
                    lo.exp, FALSE]

\* The largest digit q >= g with q * d <= n, for n < d * B, deciding the
\* j low bits of q
BigDivDigit[n \in BigNat, d \in BigNat, g \in Nat, j \in Nat] ==
    IF j = 0 THEN g
    ELSE LET t == g + Pow2(j - 1)
         IN  IF BigLeq[BigMulSmall[d, t], n]
             THEN BigDivDigit[n, d, t, j - 1]
             ELSE BigDivDigit[n, d, g, j - 1]

\* Long division for r < d, digit by digit on top of the digits q found so
\* far: <<q * B^i + floor(r * B^i / d), (r * B^i) mod d>>
BigDivLimbs[r \in BigNat, d \in BigNat, q \in BigNat, i \in Nat] ==
    IF i = 0 THEN <<q, r>>
    ELSE LET n == BigShiftLimbs[r, 1]
             g == BigDivDigit[n, d, 0, 15]
         IN  BigDivLimbs[BigSub[n, BigMulSmall[d, g]], d,
                         BigAdd[BigShiftLimbs[q, 1], BigFromNat[g]], i - 1]

\* x / y for y # 0 (Python raises ZeroDivisionError otherwise); both
\* significands have 53 bits, so x.man < 2 * y.man; the quotient is
\* developed to 60 fraction bits before rounding
FDiv[x \in Float, y \in Float] ==
    IF x.man = << >> THEN FZero[x.neg # y.neg]
    ELSE LET ge == BigLeq[y.man, x.man]
             qr == BigDivLimbs[IF ge THEN BigSub[x.man, y.man] ELSE x.man,
                               y.man, IF ge THEN BigOne ELSE << >>, 4]
         IN  FRound[x.neg # y.neg, qr[1], x.exp - y.exp - 60, qr[2] # << >>]

\* The literal 0.001: the float nearest to 1/1000
Milli == FDiv[FFromInt[1], FFromInt[1000]]

(***************************************************************************)
(* "%.3f" % v: the exact binary value of v rounded to three decimals, ties *)
(* to even; sign, integer digits, a point, three digits.  A line is the    *)
(* sequence of its characters.                                             *)
(***************************************************************************)
DigitChar == <<"0", "1", "2", "3", "4", "5", "6", "7", "8", "9">>

\* Thousandths with the fraction cut off instead of rounded
ThousandthsTruncated(v) ==
    LET p == BigMulSmall[v.man, 1000]
    IN  IF v.exp >= 0 THEN BigShl[p, v.exp] ELSE BigShr[p, -v.exp]

\* |v| * 1000 rounded to an integer, ties to even
Thousandths(v) ==
    LET p == BigMulSmall[v.man, 1000]
    IN  IF v.exp >= 0 THEN BigShl[p, v.exp]
        ELSE LET s    == -v.exp
                 q    == BigShr[p, s]
                 r    == BigSub[p, BigShl[q, s]]
                 half == BigShl[BigOne, s - 1]
                 c    == BigCmp[r, half]
             IN  IF c > 0 \/ (c = 0 /\ BigIsOdd[q])
                 THEN BigAdd[q, BigOne] ELSE q

\* decimal digits of n, most significant first; << >> for 0
BigDigits[n \in BigNat] ==
    IF n = << >> THEN << >>
    ELSE BigDigits[BigDivSmall[n, 10]] \o <<DigitChar[BigModSmall[n, 10] + 1]>>

PadLeft[ds \in Seq(STRING), w \in Nat] == IF Len(ds) >= w THEN ds ELSE PadLeft[<<"0">> \o ds, w]

Format3f(v) ==
    LET ds == PadLeft[BigDigits[Thousandths(v)], 4]
        k  == Len(ds) - 3
    IN  (IF v.neg THEN <<"-">> ELSE << >>)
        \o SubSeq(ds, 1, k) \o <<".">> \o SubSeq(ds, k + 1, Len(ds))


(***************************************************************************)
(* The script, one action per statement.                                   *)
(*                                                                         *)
(*   pc         the statement the interpreter executes next                *)
(*   globals    the module namespace: the names bound so far               *)
(*   stdout     the lines written to standard output                       *)
(*   exitStatus the process exit status, -1 while the process runs         *)
(*   traceback  an uncaught exception ended the script                     *)
(*   bus        the driver calls issued, in order: the device opened by    *)
(*              the constructor and the single-ended reads, each with its  *)
(*              arguments, whether it succeeded, and the converter code    *)
(*              a read returned                                            *)
(*   fmtArg     the values handed to "%.3f", in order                      *)
(*   prev       an earlier invocation remembered by the observer: the code *)
(*              it read and what it wrote                                  *)
(***************************************************************************)
VARIABLES pc, globals, stdout, exitStatus, traceback, bus, fmtArg, prev

vars == <<pc, globals, stdout, exitStatus, traceback, bus, fmtArg, prev>>

\* Half-width of the windows of converter codes the reads return
CodeSpan == 8

\* The windows sit at 0 mV, at the two readings the documentation works
\* out (444.5 mV and 1000.0 mV) and at a negative reading
CodeAnchors == {0, 7112, 16000, -4000}

\* The ADS1115 is a 16-bit converter: codes -2^15 .. 2^15 - 1
Codes == {a + d : a \in CodeAnchors, d \in -CodeSpan..CodeSpan}
             \cap (-(2^15)..(2^15 - 1))

\* The millivolts the driver returns for a code: code * pga / 32768.0
ReadingOf(code, pga) == FDiv[FFromInt[code * pga], FFromInt[2^15]]

NoNames == [n \in {} |-> 0]

Bind(g, name, val) ==
    [n \in DOMAIN g \cup {name} |-> IF n = name THEN val ELSE g[n]]

NoRun == [seen |-> FALSE, code |-> 0, out |-> << >>]

Init ==
    /\ pc = "configure"
    /\ globals = NoNames
    /\ stdout = << >>
    /\ exitStatus = -1
    /\ traceback = FALSE
    /\ bus = << >>
    /\ fmtArg = << >>
    /\ prev = NoRun

\* An uncaught exception: traceback on standard error, exit status 1
Raise ==
    /\ traceback' = TRUE
    /\ exitStatus' = 1
    /\ pc' = "exited"

\* ADS1015 = 0x00; ADS1115 = 0x01; gain = 2048; sps = 64
Configure ==
    /\ pc = "configure"
    /\ globals' = Bind(Bind(Bind(Bind(globals, "ADS1015", 0), "ADS1115", 1),
                            "gain", 2048), "sps", 64)
    /\ pc' = "construct"
    /\ UNCHANGED <<stdout, exitStatus, traceback, bus, fmtArg, prev>>

\* adc = ADS1x15(ic=ADS1115)
Construct ==
    /\ pc = "construct"
    /\ bus' = Append(bus, [op |-> "open", args |-> <<globals.ADS1115>>,
                           ok |-> TRUE, code |-> 0])
    /\ globals' = Bind(globals, "adc", [ic |-> globals.ADS1115])
    /\ pc' = "divider"
    /\ UNCHANGED <<stdout, exitStatus, traceback, fmtArg, prev>>

\* adc = ADS1x15(ic=ADS1115) when the bus cannot be opened
ConstructFail ==
    /\ pc = "construct"
    /\ bus' = Append(bus, [op |-> "open", args |-> <<globals.ADS1115>>,
                           ok |-> FALSE, code |-> 0])
    /\ Raise
    /\ UNCHANGED <<globals, stdout, fmtArg, prev>>

\* r1 = 1000000.; r2 = 100000.
SetDivider ==
    /\ pc = "divider"
    /\ globals' = Bind(Bind(globals, "r1", FFromInt[1000000]),
                       "r2", FFromInt[100000])
    /\ pc' = "read"
    /\ UNCHANGED <<stdout, exitStatus, traceback, bus, fmtArg, prev>>

\* SampleVolts with the divider ratio upside down: r2 / (r1+r2)
SampleVoltsInverted(m, r1, r2) ==
    FDiv[FMul[FMul[m, Milli], r2], FAdd[r1, r2]]

\* SampleVolts without the millivolt-to-volt factor
SampleVoltsUnscaled(m, r1, r2) == FDiv[FMul[m, FAdd[r1, r2]], r2]

\* m * 0.001 * (r1+r2) / r2, evaluated left to right
SampleVolts(m, r1, r2) == FDiv[FMul[FMul[m, Milli], FAdd[r1, r2]], r2]

\* volts = adc.readADCSingleEnded(0, gain, sps) * 0.001 * (r1+r2) / r2
ReadOk ==
    /\ pc = "read"
    /\ \E code \in Codes :
          /\ bus' = Append(bus, [op |-> "read",
                                 args |-> <<0, globals.gain, globals.sps>>,
                                 ok |-> TRUE, code |-> code])
          /\ globals' = Bind(globals, "volts",
                             SampleVolts(ReadingOf(code, globals.gain),
                                         globals.r1, globals.r2))
    /\ pc' = "calibrate"
    /\ UNCHANGED <<stdout, exitStatus, traceback, fmtArg, prev>>

\* ReadFail with the exception swallowed: volts = 0.0 and carry on
ReadFailSwallowed ==
    /\ pc = "read"
    /\ bus' = Append(bus, [op |-> "read",
                           args |-> <<0, globals.gain, globals.sps>>,
                           ok |-> FALSE, code |-> 0])
    /\ globals' = Bind(globals, "volts", FZero[FALSE])
    /\ pc' = "calibrate"
    /\ UNCHANGED <<stdout, exitStatus, traceback, fmtArg, prev>>

\* ReadFail with the read tried again
ReadFailRetried ==
    /\ pc = "read"
    /\ bus' = Append(bus, [op |-> "read",
                           args |-> <<0, globals.gain, globals.sps>>,
                           ok |-> FALSE, code |-> 0])
    /\ pc' = "read"
    /\ UNCHANGED <<globals, stdout, exitStatus, traceback, fmtArg, prev>>

\* the same statement when the device does not answer
ReadFail ==
    /\ pc = "read"
    /\ bus' = Append(bus, [op |-> "read",
                           args |-> <<0, globals.gain, globals.sps>>,
                           ok |-> FALSE, code |-> 0])
    /\ Raise
    /\ UNCHANGED <<globals, stdout, fmtArg, prev>>

\* The literals 4.98 and 4.889
Expected == FDiv[FFromInt[498], FFromInt[100]]

Uncalibrated == FDiv[FFromInt[4889], FFromInt[1000]]

\* Calibration with the commented-out statement live
CalibrationApplied(v) == FDiv[FMul[v, Expected], Uncalibrated]

\* Calibration switched on by what an earlier invocation left behind
CalibrationFromHistory(v) ==
    IF prev.seen THEN FDiv[FMul[v, Expected], Uncalibrated] ELSE v

\* #volts = volts * 4.98 / 4.889      (a comment: nothing is computed)
Calibration(v) == v

Calibrate ==
    /\ pc = "calibrate"
    /\ globals' = Bind(globals, "volts", Calibration(globals.volts))
    /\ pc' = "print"
    /\ UNCHANGED <<stdout, exitStatus, traceback, bus, fmtArg, prev>>

\* PrintVolts with the line written twice
PrintVoltsTwice ==
    /\ pc = "print"
    /\ fmtArg' = Append(fmtArg, globals.volts)
    /\ stdout' = stdout \o <<Format3f(globals.volts), Format3f(globals.volts)>>
    /\ pc' = "end"
    /\ UNCHANGED <<globals, exitStatus, traceback, bus, prev>>

\* print("%.3f" % (volts))
PrintVolts ==
    /\ pc = "print"
    /\ fmtArg' = Append(fmtArg, globals.volts)
    /\ stdout' = Append(stdout, Format3f(globals.volts))
    /\ pc' = "end"
    /\ UNCHANGED <<globals, exitStatus, traceback, bus, prev>>

\* Exit replaced by a sampling loop: back to the read
ExitLoops ==
    /\ pc = "end"
    /\ pc' = "read"
    /\ UNCHANGED <<globals, stdout, exitStatus, traceback, bus, fmtArg, prev>>

\* the end of the file: the interpreter exits with status 0
Exit ==
    /\ pc = "end"
    /\ exitStatus' = 0
    /\ pc' = "exited"
    /\ UNCHANGED <<globals, stdout, traceback, bus, fmtArg, prev>>

Next ==
    \/ Configure
    \/ Construct
    \/ ConstructFail
    \/ SetDivider
    \/ ReadOk
    \/ ReadFail
    \/ Calibrate
    \/ PrintVolts
    \/ Exit

Spec == Init /\ [][Next]_vars

\* The interpreter runs every statement it reaches, and the blocking read
\* returns or raises
FairSpec == Spec /\ WF_vars(Next)


(***************************************************************************)
(* The conversion of line 30 as a function of the reading and the divider: *)
(* the script at its read statement, with any of a few resistor pairs      *)
(* bound to r1 and r2.                                                     *)
(***************************************************************************)
DividerR1 == {0, 1000000, 470000}

DividerR2 == {100000, 65536, 3300}

InitConv ==
    /\ pc = "read"
    /\ \E a \in DividerR1, b \in DividerR2 :
          globals = [ADS1015 |-> 0, ADS1115 |-> 1, gain |-> 2048,
                     sps |-> 64, adc |-> [ic |-> 1],
                     r1 |-> FFromInt[a], r2 |-> FFromInt[b]]
    /\ stdout = << >>
    /\ exitStatus = -1
    /\ traceback = FALSE
    /\ bus = <<[op |-> "open", args |-> <<1>>, ok |-> TRUE, code |-> 0]>>
    /\ fmtArg = << >>
    /\ prev = NoRun

NextConv == ReadOk

SpecConv == InitConv /\ [][NextConv]_vars

(***************************************************************************)
(* The script run again and again by whatever schedules it.  Every         *)
(* invocation is a fresh interpreter: nothing of the last one is left.     *)
(* The observer remembers one earlier invocation of its choice.            *)
(***************************************************************************)
IsRead(e) == e.op = "read"

Reads == SelectSeq(bus, IsRead)

ReadSucceeded == \E i \in 1..Len(bus) : bus[i].op = "read" /\ bus[i].ok

HardwareFailed == \E i \in 1..Len(bus) : ~bus[i].ok

\* the code the last driver call returned
LastCode == bus[Len(bus)].code

Reinvoke ==
    /\ pc = "exited"
    /\ pc' = "configure"
    /\ globals' = NoNames
    /\ stdout' = << >>
    /\ exitStatus' = -1
    /\ traceback' = FALSE
    /\ bus' = << >>
    /\ fmtArg' = << >>
    /\ prev' \in {prev,
                  [seen |-> TRUE,
                   code |-> IF ReadSucceeded THEN LastCode ELSE 0,
                   out  |-> stdout]}

NextRuns == Next \/ Reinvoke

SpecRuns == Init /\ [][NextRuns]_vars

(***************************************************************************)
(* Exact rational arithmetic, to state what the floats approximate:        *)
(* [neg, num, den] is (-1)^neg * num / den, den > 0.                       *)
(***************************************************************************)
RatOfFloat(x) ==
    IF x.exp >= 0
    THEN [neg |-> x.neg, num |-> BigShl[x.man, x.exp], den |-> BigOne]
    ELSE [neg |-> x.neg, num |-> x.man, den |-> BigShl[BigOne, -x.exp]]

RatOfNats(n, d) == [neg |-> FALSE, num |-> BigFromNat[n], den |-> BigFromNat[d]]

RatMul(a, b) ==
    [neg |-> a.neg # b.neg, num |-> BigMul[a.num, b.num],
     den |-> BigMul[a.den, b.den]]

\* a / b for b # 0
RatDiv(a, b) ==
    [neg |-> a.neg # b.neg, num |-> BigMul[a.num, b.den],
     den |-> BigMul[a.den, b.num]]

\* a + b for a, b >= 0
RatAdd(a, b) ==
    [neg |-> FALSE,
     num |-> BigAdd[BigMul[a.num, b.den], BigMul[b.num, a.den]],
     den |-> BigMul[a.den, b.den]]

RatEq(a, b) ==
    /\ BigMul[a.num, b.den] = BigMul[b.num, a.den]
    /\ (a.num = << >> \/ a.neg = b.neg)

\* | |a| - |b| | as a multiple of 1 / (a.den * b.den)
RatGap(a, b) ==
    LET x == BigMul[a.num, b.den]
        y == BigMul[b.num, a.den]
    IN  IF BigLeq[x, y] THEN BigSub[y, x] ELSE BigSub[x, y]

\* |a - b| <= |b| / 2^t
RatWithin(a, b, t) ==
    IF b.num = << >> THEN a.num = << >>
    ELSE /\ a.num # << >>
         /\ a.neg = b.neg
         /\ BigLeq[BigShl[RatGap(a, b), t], BigMul[b.num, a.den]]

(***************************************************************************)
(* What the claims speak of.                                               *)
(***************************************************************************)
\* the reading of this invocation, in millivolts, as the driver returned it
Raw == ReadingOf(LastCode, globals.gain)

\* the reading in volts as the script computes it: m * 0.001
RawVolts == FMul[Raw, Milli]

\* m * (R1 + R2) / (1000 * R2) in exact arithmetic
ExactVolts ==
    RatDiv(RatMul(RatMul(RatOfFloat(Raw), RatOfNats(1, 1000)),
                  RatAdd(RatOfFloat(globals.r1), RatOfFloat(globals.r2))),
           RatOfFloat(globals.r2))

\* the compiled-in divider, r1 = 1000000. and r2 = 100000.
CompiledDivider ==
    /\ globals.r1 = FFromInt[1000000]
    /\ globals.r2 = FFromInt[100000]

\* line 30 has run and bound volts
Sampled == pc \in {"calibrate", "print", "end", "exited"} /\ ReadSucceeded


(***************************************************************************)
(* C1.  Conversion.  For every reading m and every divider R1, R2 > 0 the  *)
(* computed voltage is m * 0.001 * (R1 + R2) / R2; with the compiled-in    *)
(* resistors that is 11 times the reading in volts, and a reading of       *)
(* 1000 mV gives 11.0.                                                     *)
(***************************************************************************)
PositiveDivider == globals.r1.man # << >> /\ globals.r2.man # << >>

NoAttenuation == globals.r1.man = << >> /\ globals.r2.man # << >>

C7_NoCalibration ==
    /\ (pc \in {"print", "end", "exited"} /\ ReadSucceeded)
          => globals.volts = SampleVolts(Raw, globals.r1, globals.r2)
    /\ fmtArg # << >>
          => fmtArg = <<SampleVolts(Raw, globals.r1, globals.r2)>>

C7_Witness ==
    /\ pc = "end"
    /\ LastCode = 7112
    /\ fmtArg = <<SampleVolts(Raw, globals.r1, globals.r2)>>

(***************************************************************************)
(* C5.  Formatting.  The emitted line is the computed voltage rounded to   *)
(* three digits after the decimal point, and nothing else.                 *)
(***************************************************************************)
DigitValue(ch) == CHOOSE d \in 0..9 : DigitChar[d + 1] = ch

IsDigit(ch) == \E d \in 0..9 : DigitChar[d + 1] = ch

RECURSIVE DigitsValue(_)
DigitsValue(ds) ==
    IF ds = << >> THEN 0
    ELSE 10 * DigitsValue(SubSeq(ds, 1, Len(ds) - 1)) + DigitValue(ds[Len(ds)])

\* the line without its sign
Unsigned(line) == IF line[1] = "-" THEN Tail(line) ELSE line

\* digits, a point, exactly three digits; no leading zero but the one
\* before the point
WellFormed(line) ==
    LET u == Unsigned(line)
        k == Len(u) - 4
    IN  /\ Len(line) >= 5
        /\ k >= 1
        /\ u[k + 1] = "."
        /\ \A i \in (1..Len(u)) \ {k + 1} : IsDigit(u[i])
        /\ k > 1 => u[1] # "0"

\* the thousandths the line denotes
LineThousandths(line) ==
    LET u == Unsigned(line)
        k == Len(u) - 4
    IN  DigitsValue(SubSeq(u, 1, k) \o SubSeq(u, k + 2, Len(u)))

\* n thousandths is the multiple of 0.001 nearest to |v|, the even one of
\* two: 2 * |1000 * |v| - n| against 1
Nearest(v, n) ==
    LET a    == RatOfFloat(v)
        gap2 == BigShl[RatGap(a, RatOfNats(n, 1000)), 1]
        c    == BigCmp[gap2, a.den]
    IN  c < 0 \/ (c = 0 /\ n % 2 = 0)

Chars4889 == <<"4", ".", "8", "8", "9">>

Chars4890 == <<"4", ".", "8", "9", "0">>

Chars11000 == <<"1", "1", ".", "0", "0", "0">>

\* C5 as stated: a reading of 444.5 mV is emitted as 4.890.
C5_TieRoundsUp ==
    (stdout # << >> /\ LastCode = 7112) => stdout[1] = Chars4890

\* C5 as amended: the line is the float v rounded to three decimals (the
\* nearest, ties to even), a minus sign exactly when v is negative, and
\* nothing else; 1000.0 mV is emitted as 11.000, and 444.5 mV as 4.889,
\* because the float computed for it lies just below 4.8895.
C5_RoundedToThreeDecimals ==
    stdout # << >>
        => /\ Len(fmtArg) = Len(stdout)
           /\ \A i \in 1..Len(stdout) :
                 /\ WellFormed(stdout[i])
                 /\ (stdout[i][1] = "-") = fmtArg[i].neg
                 /\ Nearest(fmtArg[i], LineThousandths(stdout[i]))
           /\ LastCode = 16000 => stdout[1] = Chars11000
           /\ LastCode = 7112 => stdout[1] = Chars4889

C5_Witness ==
    /\ stdout = <<Chars4889>>
    /\ LastCode = 7112
    /\ RatWithin(RatOfFloat(fmtArg[1]), RatOfNats(48895, 10000), 50)
    /\ ~RatEq(RatOfFloat(fmtArg[1]), RatOfNats(48895, 10000))


(***************************************************************************)
(* C2.  Failure surfacing.  When the device cannot be opened or the read   *)
(* fails, nothing is written to standard output and the exit status is     *)
(* not zero.                                                               *)
(***************************************************************************)
\* C2: once a driver call has failed, the process has exited on the
\* uncaught exception with a non-zero status, no line is on standard
\* output and nothing was handed to the formatter.
C2_FailureSurfaced ==
    HardwareFailed
        => /\ pc = "exited"
           /\ traceback
           /\ exitStatus > 0
           /\ stdout = << >>
           /\ fmtArg = << >>

C2_Witness ==
    /\ pc = "exited"
    /\ Len(bus) = 2
    /\ bus[2].op = "read"
    /\ ~bus[2].ok
    /\ exitStatus = 1
    /\ stdout = << >>

(***************************************************************************)
(* C3.  Success.  When the read succeeds the program writes exactly one    *)
(* line, the computed voltage, and exits with status 0; status 0 is        *)
(* reached only after that line.                                           *)
(***************************************************************************)
\* C3: never more than one line; a terminated invocation whose read
\* succeeded wrote exactly one line, the formatted voltage, and exited 0;
\* exit status 0 comes only with a successful read and that one line.
C3_OneLineOnSuccess ==
    /\ Len(stdout) <= 1
    /\ (pc = "exited" /\ ReadSucceeded)
          => /\ exitStatus = 0
             /\ stdout = <<Format3f(SampleVolts(Raw, globals.r1, globals.r2))>>
    /\ exitStatus = 0 => (ReadSucceeded /\ Len(stdout) = 1 /\ ~traceback)

C3_Witness ==
    /\ pc = "exited"
    /\ exitStatus = 0
    /\ ReadSucceeded
    /\ stdout = <<Chars11000>>

(***************************************************************************)
(* C4.  One read.  At most one single-ended read is issued, exactly one    *)
(* on success, on channel 0 at gain 2048 and 64 samples per second; a      *)
(* failed read is not retried.                                             *)
(***************************************************************************)
\* C4: at most one read; every read is readADCSingleEnded(0, 2048, 64); a
\* successful exit has issued exactly one; no driver call follows a failed
\* one.
C4_SingleRead ==
    /\ Len(Reads) <= 1
    /\ \A i \in 1..Len(Reads) : Reads[i].args = <<0, 2048, 64>>
    /\ (pc = "exited" /\ exitStatus = 0) => Len(Reads) = 1
    /\ \A i \in 1..(Len(bus) - 1) : bus[i].ok

C4_Witness ==
    /\ pc = "exited"
    /\ Len(Reads) = 1
    /\ Reads[1].args = <<0, 2048, 64>>
    /\ ~Reads[1].ok

(***************************************************************************)
(* C8.  Termination.  Every invocation ends in one of two terminal states, *)
(* (read done, one line, exit 0) or (hardware error, no line, exit status  *)
(* not 0), and never goes back to read again.                              *)
(***************************************************************************)
TerminalSuccess ==
    /\ pc = "exited"
    /\ ReadSucceeded
    /\ ~HardwareFailed
    /\ Len(stdout) = 1
    /\ exitStatus = 0

TerminalFailure ==
    /\ pc = "exited"
    /\ HardwareFailed
    /\ stdout = << >>
    /\ exitStatus > 0

\* C8: the invocation eventually exits; an exited invocation is in exactly
\* one of the two terminal states and takes no further step; once a read
\* has been issued the script is never at the read statement again.
C8_Terminates ==
    /\ <>(pc = "exited")
    /\ [](pc = "exited" => (TerminalSuccess # TerminalFailure))
    /\ [][pc # "exited"]_vars
    /\ [][Reads # << >> => pc' # "read"]_vars

C8_Witness ==
    /\ TerminalFailure
    /\ Len(bus) = 1
    /\ bus[1].op = "open"

=============================================================================
